---- MODULE Spec2Model ----
(***************************************************************************)
(* StandardCosmologyWrapper (cosmology.compat.classy._standard): a frozen  *)
(* dataclass that holds a solver (self.cosmo) and a table of vectorized    *)
(* solver queries (self._cosmo_fn), and answers z=0 properties and         *)
(* redshift queries from them.                                             *)
(*                                                                         *)
(* Floating-point numbers are modelled as exact rationals plus the IEEE    *)
(* specials inf, -inf and nan; rounding is not modelled.  The solver is    *)
(* external: it is drawn from the bounded family Solvers and returns       *)
(* Python floats, so that  1 / cosmo.Hubble(0)  is Python's division.      *)
(***************************************************************************)
EXTENDS Integers, Sequences, FiniteSets, TLC

VARIABLES cosmo, cosmo_fn, constructed, cacheWrites, last

vars == <<cosmo, cosmo_fn, constructed, cacheWrites, last>>

(***************************************************************************)
(* Bounds of the model.                                                    *)
(***************************************************************************)
\* Redshifts are 0..MaxZ.
MaxZ == 1
\* Redshift sequences have at most MaxLen elements.
MaxLen == 2

Z == 0..MaxZ

\* The raw Hubble rates the solver may report (solver-native units).
Rates == {0, 1, 2}

(***************************************************************************)
(* Floats: [n, d, k |-> "num"] is the rational n/d in lowest terms, d > 0; *)
(* [n |-> sign, k |-> "inf"]; [k |-> "nan"]; [k |-> "None"] is Python's    *)
(* None held where a float is expected.                                    *)
(***************************************************************************)
RECURSIVE GCD(_, _)
GCD(a, b) == IF b = 0 THEN a ELSE GCD(b, a % b)

Abs(x) == IF x < 0 THEN -x ELSE x

Rat(n, d) ==
    LET s == IF d < 0 THEN -1 ELSE 1
        g == GCD(Abs(n), Abs(d))
    IN  [n |-> (s * n) \div g, d |-> (s * d) \div g, k |-> "num"]

Num(n) == [n |-> n, d |-> 1, k |-> "num"]
FInf(s) == [n |-> s, d |-> 0, k |-> "inf"]
NaN == [n |-> 0, d |-> 0, k |-> "nan"]
None == [n |-> 0, d |-> 0, k |-> "None"]

Sign(x) == IF x > 0 THEN 1 ELSE IF x < 0 THEN -1 ELSE 0

\* a * b for finite a, b (factors are cancelled crosswise before multiplying).
FMul(a, b) ==
    LET g1 == GCD(Abs(a.n), b.d)
        g2 == GCD(Abs(b.n), a.d)
    IN  IF a.n = 0 \/ b.n = 0 THEN Num(0)
        ELSE Rat((a.n \div g1) * (b.n \div g2), (a.d \div g2) * (b.d \div g1))

\* a + b for finite a, b.
FAdd(a, b) == Rat(a.n * b.d + b.n * a.d, a.d * b.d)

\* numpy's true division of floats: x/0 is +-inf, 0/0 is nan (a warning, no
\* exception).
NpDiv(a, b) ==
    IF a.k = "nan" \/ b.k = "nan" THEN NaN
    ELSE IF a.k = "inf" THEN (IF b.k = "inf" THEN NaN
                              ELSE FInf(a.n * (IF b.n < 0 THEN -1 ELSE 1)))
    ELSE IF b.k = "inf" THEN Num(0)
    ELSE IF b.n = 0 THEN (IF a.n = 0 THEN NaN ELSE FInf(Sign(a.n)))
    ELSE FMul(a, Rat(b.d, b.n))

(***************************************************************************)
(* Outcomes of a call: a value (0-d "scalar" or 1-d "array" of floats,     *)
(* with the closed form applied to them, "" for the plain numbers) or a    *)
(* raised exception and the function that raised it.                       *)
(***************************************************************************)
Value(shape, data) ==
    [shape |-> shape, data |-> data, kind |-> "value", by |-> "", form |-> ""]

Scalar(x) == Value("scalar", <<x>>)

Raise(exc, by) ==
    [shape |-> "none", data |-> <<>>, kind |-> exc, by |-> by, form |-> ""]

IsValue(o) == o.kind = "value"

\* numpy's elementwise arithmetic between an array and a scalar float; an
\* exception passes through.
MulAll(a, o) ==
    IF IsValue(o) THEN [o EXCEPT !.data = [i \in 1..Len(o.data) |-> FMul(a, o.data[i])]]
    ELSE o

AddAll(o, a) ==
    IF IsValue(o) THEN [o EXCEPT !.data = [i \in 1..Len(o.data) |-> FAdd(o.data[i], a)]]
    ELSE o

\* o / b
DivAll(o, b) ==
    IF IsValue(o) THEN [o EXCEPT !.data = [i \in 1..Len(o.data) |-> NpDiv(o.data[i], b)]]
    ELSE o

\* a / o
DivInto(a, o) ==
    IF IsValue(o) THEN [o EXCEPT !.data = [i \in 1..Len(o.data) |-> NpDiv(a, o.data[i])]]
    ELSE o

WithForm(o, form) == IF IsValue(o) THEN [o EXCEPT !.form = form] ELSE o

(***************************************************************************)
(* Redshift inputs: a scalar or a sequence of redshifts.                   *)
(***************************************************************************)
RECURSIVE SeqsUpTo(_, _)
SeqsUpTo(S, n) ==
    IF n = 0 THEN {<<>>}
    ELSE LET prev == SeqsUpTo(S, n - 1)
         IN  prev \cup {Append(s, x) : s \in {t \in prev : Len(t) = n - 1}, x \in S}

ScalarZ(z) == [shape |-> "scalar", data |-> <<z>>]
ArrayZ(zs) == [shape |-> "array", data |-> zs]
NoInput == [shape |-> "none", data |-> <<>>]

Inputs == {ScalarZ(z) : z \in Z} \cup {ArrayZ(zs) : zs \in SeqsUpTo(Z, MaxLen)}

(***************************************************************************)
(* The solver (classy.Class): scalar queries per redshift and the          *)
(* redshift-independent totals.  The distance and matter tables follow     *)
(* the Hubble table t so that the four scalar queries are four different   *)
(* functions of z.                                                         *)
(***************************************************************************)
Tenths(n) == Rat(n, 10)

MkSolver(t, OL, Om, Ok, Or, Ob) ==
    [Hubble              |-> [z \in Z |-> Num(t[z])],
     Om_m                |-> [z \in Z |-> Rat(3, 3 + 7 * t[z] + z)],
     angular_distance    |-> [z \in Z |-> Rat(z + t[z], 1 + z)],
     luminosity_distance |-> [z \in Z |-> Num((z + t[z]) * (1 + z))],
     Omega_Lambda        |-> OL,
     Omega_m             |-> Om,
     Omega0_k            |-> Ok,
     Omega_r             |-> Or,
     Omega_b             |-> Ob,
     Omega0_cdm          |-> Rat(1, 4),
     Omega_g             |-> Rat(1, 20000),
     Neff                |-> Rat(3046, 1000),
     T_cmb               |-> Rat(2725, 1000)]

Solvers ==
    {MkSolver(t, OL, Om, Ok, Or, Ob) :
        t \in [Z -> Rates],
        OL \in {Tenths(6), Tenths(7)},
        Om \in {Tenths(3)},
        Ok \in {Tenths(-1), Tenths(0), Tenths(1)},
        Or \in {Tenths(0), Tenths(1)},
        Ob \in {None, Rat(1, 20)}}

\* constants.c, the speed of light in km/s.
c == Rat(299792458, 1000)

\* _MPCS_KM_TO_GYR
MPCS_KM_TO_GYR == Rat(9785, 10)

(***************************************************************************)
(* __post_init__: the vectorization table.  Each key holds numpy's         *)
(* vectorize of one bound solver method, named here by that method.        *)
(***************************************************************************)

\* A table built without its luminosity_distance entry.
BuildCosmoFn_missing_key ==
    [Hubble              |-> "Hubble",
     Om_m                |-> "Om_m",
     angular_distance    |-> "angular_distance"]

BuildCosmoFn ==
    [Hubble              |-> "Hubble",
     Om_m                |-> "Om_m",
     angular_distance    |-> "angular_distance",
     luminosity_distance |-> "luminosity_distance"]

SolverFn(name) ==
    CASE name = "Om_m"                -> cosmo.Om_m
      [] name = "Hubble"              -> cosmo.Hubble
      [] name = "angular_distance"    -> cosmo.angular_distance
      [] name = "luminosity_distance" -> cosmo.luminosity_distance


\* A vectorize that evaluates f on the first element and broadcasts it.
Vectorized_broadcast(f, z) ==
    IF z.shape = "array" /\ Len(z.data) = 0
    THEN Raise("ValueError", "vectorize")
    ELSE Value(z.shape, [i \in 1..Len(z.data) |-> f[z.data[1]]])

\* numpy.vectorize(f)(z) without otypes: f is called once per element, in
\* order; a 0-d input gives a 0-d result; a size-0 input raises ValueError
\* ("cannot call `vectorize` on size 0 inputs unless `otypes` is set").  The
\* result dtype is that of f's first result, float64 for a solver that
\* returns floats.
Vectorized(f, z) ==
    IF z.shape = "array" /\ Len(z.data) = 0
    THEN Raise("ValueError", "vectorize")
    ELSE Value(z.shape, [i \in 1..Len(z.data) |-> f[z.data[i]]])

\* self._cosmo_fn[key](z)
CosmoFn(key, z) == Vectorized(SolverFn(cosmo_fn[key]), z)

\* The redshift input as an array of floats (InputT is a float or an ndarray).
ZValue(z) == Value(z.shape, [i \in 1..Len(z.data) |-> Num(z.data[i])])

NotImplemented(by) == Raise("NotImplementedError", by)

(***************************************************************************)
(* Density parameters.                                                     *)
(***************************************************************************)

\* The total without the radiation term.
Omega_tot0_no_radiation ==
    Scalar(FAdd(FAdd(cosmo.Omega_Lambda, cosmo.Omega_m), cosmo.Omega0_k))

Omega_tot0 ==
    Scalar(FAdd(FAdd(FAdd(cosmo.Omega_Lambda, cosmo.Omega_m), cosmo.Omega0_k),
                cosmo.Omega_r))

Omega_tot(z) == NotImplemented("Omega_tot")

Omega_k0 == Scalar(cosmo.Omega0_k)

Omega_k(z) == NotImplemented("Omega_k")

Omega_m0 == Scalar(cosmo.Omega_m)

Omega_m(z) == CosmoFn("Om_m", z)

\* np.asarray(None) is a 0-d object array holding None: a value, no exception.
Omega_b0 == Scalar(cosmo.Omega_b)


\* Omega_b as its docstring has it: ValueError when Ob0 is None.
Omega_b_documented(z) ==
    IF cosmo.Omega_b = None THEN Raise("ValueError", "Omega_b")
    ELSE NotImplemented("Omega_b")

Omega_b(z) == NotImplemented("Omega_b")

Omega_nu0 == NotImplemented("Omega_nu0")

Neff == Scalar(cosmo.Neff)

m_nu == NotImplemented("m_nu")

Omega_nu(z) == NotImplemented("Omega_nu")

Omega_de0 == Scalar(cosmo.Omega_Lambda)

Omega_de(z) == NotImplemented("Omega_de")

Omega_dm0 == Scalar(cosmo.Omega0_cdm)

Omega_dm(z) == NotImplemented("Omega_dm")

Omega_gamma0 == Scalar(cosmo.Omega_g)

Omega_gamma(z) == NotImplemented("Omega_gamma")

(***************************************************************************)
(* Hubble parameter and critical density.                                  *)
(***************************************************************************)

\* H0 without the speed-of-light factor.
H0_raw == Scalar(cosmo.Hubble[0])

H0 == Scalar(FMul(c, cosmo.Hubble[0]))

\* 1 / self.cosmo.Hubble(0): Python's division of an int by a float.
hubble_distance ==
    IF cosmo.Hubble[0].n = 0
    THEN Raise("ZeroDivisionError", "hubble_distance")
    ELSE Scalar(NpDiv(Num(1), cosmo.Hubble[0]))

\* _MPCS_KM_TO_GYR / self.H0: both are numpy arrays.
hubble_time == DivInto(MPCS_KM_TO_GYR, H0)

H(z) == MulAll(c, CosmoFn("Hubble", z))

\* The raw vectorized rate divided by the scaled H0.
h_over_h0_by_H0(z) == DivAll(CosmoFn("Hubble", z), H0.data[1])

\* An ndarray divided by the Python float self.cosmo.Hubble(0): numpy's division.
h_over_h0(z) == DivAll(CosmoFn("Hubble", z), cosmo.Hubble[0])

critical_density0 == WithForm(H0, "3e6*x**2/(8*pi*G)")

critical_density(z) == WithForm(H(z), "3e6*x**2/(8*pi*G)")

(***************************************************************************)
(* Scale factor, temperature, time.                                        *)
(***************************************************************************)
scale_factor0 == Scalar(Num(1))

scale_factor(z) == DivInto(scale_factor0.data[1], AddAll(ZValue(z), Num(1)))

Tcmb0 == Scalar(cosmo.T_cmb)

Tcmb(z) == MulAll(Tcmb0.data[1], AddAll(ZValue(z), Num(1)))

age(z) == NotImplemented("age")

lookback_time(z) == NotImplemented("lookback_time")

(***************************************************************************)
(* Distances and volumes.  A volume evaluation is a run: its outcome, the  *)
(* branch comoving_volume took, and the divisors 2*Omega_k0 by which       *)
(* term1 was actually divided.                                             *)
(***************************************************************************)
comoving_distance(z) == NotImplemented("comoving_distance")

comoving_transverse_distance(z) == NotImplemented("comoving_transverse_distance")

Run(out, branch, divs) == [out |-> out, branch |-> branch, divs |-> divs]

comoving_volume_flat(z) ==
    Run(WithForm(comoving_distance(z), "4/3*pi*x**3"), "flat", <<>>)

\* The two curved branches: dh, then x (which evaluates
\* comoving_transverse_distance), then term1 = 4*pi*dh**3 / (2*Omega_k0).
CurvedVolume(z, branch, form) ==
    LET dh == hubble_distance
    IN  IF ~IsValue(dh) THEN Run(dh, branch, <<>>)
        ELSE LET dm == comoving_transverse_distance(z)
             IN  IF ~IsValue(dm) THEN Run(dm, branch, <<>>)
                 ELSE Run(WithForm(DivAll(dm, dh.data[1]), form),
                          branch, <<FMul(Num(2), Omega_k0.data[1])>>)

comoving_volume_positive(z) ==
    CurvedVolume(z, "positive",
        "term1*(x*sqrt(1+Ok0*x**2)-arcsinh(sqrt(abs(Ok0))*x)/sqrt(abs(Ok0)))")

comoving_volume_negative(z) ==
    CurvedVolume(z, "negative",
        "term1*(x*sqrt(1+Ok0*x**2)-arcsin(sqrt(abs(Ok0))*x)/sqrt(abs(Ok0)))")

\* The positive branch taken for Omega_k0 >= 0.
comoving_volume_ge(z) ==
    IF Omega_k0.data[1].n >= 0 THEN comoving_volume_positive(z)
    ELSE comoving_volume_negative(z)

\* The factor 1/(2*Omega_k0) shared by the curved branches, evaluated before
\* the branch is chosen.
comoving_volume_hoisted(z) ==
    LET r == IF Omega_k0.data[1].n = 0 THEN comoving_volume_flat(z)
             ELSE IF Omega_k0.data[1].n > 0 THEN comoving_volume_positive(z)
             ELSE comoving_volume_negative(z)
    IN  Run(r.out, r.branch, <<FMul(Num(2), Omega_k0.data[1])>> \o r.divs)

comoving_volume(z) ==
    IF Omega_k0.data[1].n = 0 THEN comoving_volume_flat(z)
    ELSE IF Omega_k0.data[1].n > 0 THEN comoving_volume_positive(z)
    ELSE comoving_volume_negative(z)

\* The quotient with hubble_distance evaluated first.
differential_comoving_volume_dh_first(z) ==
    LET dh == hubble_distance
    IN  IF ~IsValue(dh) THEN dh ELSE comoving_transverse_distance(z)

\* (comoving_transverse_distance(z) / hubble_distance) ** 2 / h_over_h0(z):
\* Python evaluates the operands left to right.
differential_comoving_volume(z) ==
    LET dm == comoving_transverse_distance(z)
    IN  IF ~IsValue(dm) THEN dm
        ELSE LET dh == hubble_distance
             IN  IF ~IsValue(dh) THEN dh
                 ELSE LET e == h_over_h0(z)
                      IN  IF ~IsValue(e) THEN e
                          ELSE WithForm(DivAll(dm, dh.data[1]), "x**2/E")

angular_diameter_distance(z) == CosmoFn("angular_distance", z)

luminosity_distance(z) == CosmoFn("luminosity_distance", z)

(***************************************************************************)
(* The state machine.  last is the most recent call observed by the        *)
(* caller: the operation, its redshift input and what came back.           *)
(***************************************************************************)
Call(op, z, run) ==
    [z |-> z, out |-> run.out, branch |-> run.branch, divs |-> run.divs, op |-> op]

NoCall == Call("", NoInput, Run(Raise("", ""), "", <<>>))

Init ==
    /\ cosmo \in Solvers
    /\ cosmo_fn = [k \in {} |-> ""]
    /\ constructed = FALSE
    /\ cacheWrites = 0
    /\ last = NoCall

\* object.__setattr__(self, "_cosmo_fn", {...}), once, from the dataclass __init__.
PostInit ==
    /\ ~constructed
    /\ cosmo_fn' = BuildCosmoFn
    /\ cacheWrites' = cacheWrites + 1
    /\ constructed' = TRUE
    /\ UNCHANGED <<cosmo, last>>

\* A property read or a method call on the constructed object; calls are
\* synchronous, one at a time.
Return(op, z, run) ==
    /\ constructed
    /\ last = NoCall
    /\ last' = Call(op, z, run)
    /\ UNCHANGED <<cosmo, cosmo_fn, constructed, cacheWrites>>

Plain(out) == Run(out, "", <<>>)

\* The caller drops the result; the object keeps nothing of a call.
Discard ==
    /\ last # NoCall
    /\ last' = NoCall
    /\ UNCHANGED <<cosmo, cosmo_fn, constructed, cacheWrites>>

(***************************************************************************)
(* One action per public property and method.                              *)
(***************************************************************************)
Get_Omega_tot0 == Return("Omega_tot0", NoInput, Plain(Omega_tot0))

Get_Omega_k0 == Return("Omega_k0", NoInput, Plain(Omega_k0))

Get_Omega_m0 == Return("Omega_m0", NoInput, Plain(Omega_m0))

Get_Omega_b0 == Return("Omega_b0", NoInput, Plain(Omega_b0))

Get_Omega_nu0 == Return("Omega_nu0", NoInput, Plain(Omega_nu0))

Get_Neff == Return("Neff", NoInput, Plain(Neff))

Get_m_nu == Return("m_nu", NoInput, Plain(m_nu))

Get_Omega_de0 == Return("Omega_de0", NoInput, Plain(Omega_de0))

Get_Omega_dm0 == Return("Omega_dm0", NoInput, Plain(Omega_dm0))

Get_Omega_gamma0 == Return("Omega_gamma0", NoInput, Plain(Omega_gamma0))

Get_critical_density0 == Return("critical_density0", NoInput, Plain(critical_density0))

Get_H0 == Return("H0", NoInput, Plain(H0))

Get_hubble_distance == Return("hubble_distance", NoInput, Plain(hubble_distance))

Get_hubble_time == Return("hubble_time", NoInput, Plain(hubble_time))

Get_scale_factor0 == Return("scale_factor0", NoInput, Plain(scale_factor0))

Get_Tcmb0 == Return("Tcmb0", NoInput, Plain(Tcmb0))

Call_Omega_tot == \E z \in Inputs : Return("Omega_tot", z, Plain(Omega_tot(z)))

Call_Omega_k == \E z \in Inputs : Return("Omega_k", z, Plain(Omega_k(z)))

Call_Omega_m == \E z \in Inputs : Return("Omega_m", z, Plain(Omega_m(z)))

Call_Omega_b == \E z \in Inputs : Return("Omega_b", z, Plain(Omega_b(z)))

Call_Omega_nu == \E z \in Inputs : Return("Omega_nu", z, Plain(Omega_nu(z)))

Call_Omega_de == \E z \in Inputs : Return("Omega_de", z, Plain(Omega_de(z)))

Call_Omega_dm == \E z \in Inputs : Return("Omega_dm", z, Plain(Omega_dm(z)))

Call_Omega_gamma == \E z \in Inputs : Return("Omega_gamma", z, Plain(Omega_gamma(z)))

Call_critical_density == \E z \in Inputs : Return("critical_density", z, Plain(critical_density(z)))

Call_H == \E z \in Inputs : Return("H", z, Plain(H(z)))

Call_h_over_h0 == \E z \in Inputs : Return("h_over_h0", z, Plain(h_over_h0(z)))

Call_scale_factor == \E z \in Inputs : Return("scale_factor", z, Plain(scale_factor(z)))

Call_Tcmb == \E z \in Inputs : Return("Tcmb", z, Plain(Tcmb(z)))

Call_age == \E z \in Inputs : Return("age", z, Plain(age(z)))

Call_lookback_time == \E z \in Inputs : Return("lookback_time", z, Plain(lookback_time(z)))

Call_comoving_distance == \E z \in Inputs : Return("comoving_distance", z, Plain(comoving_distance(z)))

Call_comoving_transverse_distance == \E z \in Inputs : Return("comoving_transverse_distance", z, Plain(comoving_transverse_distance(z)))

Call_comoving_volume == \E z \in Inputs : Return("comoving_volume", z, comoving_volume(z))

Call_differential_comoving_volume == \E z \in Inputs : Return("differential_comoving_volume", z, Plain(differential_comoving_volume(z)))

Call_angular_diameter_distance == \E z \in Inputs : Return("angular_diameter_distance", z, Plain(angular_diameter_distance(z)))

Call_luminosity_distance == \E z \in Inputs : Return("luminosity_distance", z, Plain(luminosity_distance(z)))

Next ==
    \/ PostInit
    \/ Discard
    \/ Get_Omega_tot0
    \/ Get_Omega_k0
    \/ Get_Omega_m0
    \/ Get_Omega_b0
    \/ Get_Omega_nu0
    \/ Get_Neff
    \/ Get_m_nu
    \/ Get_Omega_de0
    \/ Get_Omega_dm0
    \/ Get_Omega_gamma0
    \/ Get_critical_density0
    \/ Get_H0
    \/ Get_hubble_distance
    \/ Get_hubble_time
    \/ Get_scale_factor0
    \/ Get_Tcmb0
    \/ Call_Omega_tot
    \/ Call_Omega_k
    \/ Call_Omega_m
    \/ Call_Omega_b
    \/ Call_Omega_nu
    \/ Call_Omega_de
    \/ Call_Omega_dm
    \/ Call_Omega_gamma
    \/ Call_critical_density
    \/ Call_H
    \/ Call_h_over_h0
    \/ Call_scale_factor
    \/ Call_Tcmb
    \/ Call_age
    \/ Call_lookback_time
    \/ Call_comoving_distance
    \/ Call_comoving_transverse_distance
    \/ Call_comoving_volume
    \/ Call_differential_comoving_volume
    \/ Call_angular_diameter_distance
    \/ Call_luminosity_distance

Spec == Init /\ [][Next]_vars

(***************************************************************************)
(* Properties.                                                             *)
(***************************************************************************)
UnsupportedOps ==
    {"Omega_tot", "Omega_k", "Omega_b", "Omega_nu0", "m_nu", "Omega_nu",
     "Omega_de", "Omega_dm", "Omega_gamma", "age", "lookback_time",
     "comoving_distance", "comoving_transverse_distance"}

IsUnsupported(o) == o.kind = "NotImplementedError"

VectorizedOps == {"Omega_m", "H", "angular_diameter_distance", "luminosity_distance"}

\* The same operation applied to the scalar zi alone.
ScalarResult(op, zi) ==
    CASE op = "Omega_m"                   -> Omega_m(ScalarZ(zi))
      [] op = "H"                         -> H(ScalarZ(zi))
      [] op = "angular_diameter_distance" -> angular_diameter_distance(ScalarZ(zi))
      [] op = "luminosity_distance"       -> luminosity_distance(ScalarZ(zi))

\* C2: for each of the four vectorized quantities and every redshift sequence
\* [z0,...,zn] (at least one element), the result is an array of the input's
\* length whose element i is the result of the same operation on the scalar
\* zi alone.
C2_Elementwise ==
    (last.op \in VectorizedOps /\ last.z.shape = "array" /\ Len(last.z.data) >= 1)
    => /\ IsValue(last.out)
       /\ last.out.shape = "array"
       /\ Len(last.out.data) = Len(last.z.data)
       /\ \A i \in 1..Len(last.z.data) :
             /\ IsValue(ScalarResult(last.op, last.z.data[i]))
             /\ ScalarResult(last.op, last.z.data[i]).shape = "scalar"
             /\ last.out.data[i] = ScalarResult(last.op, last.z.data[i]).data[1]

C2_Witness ==
    /\ last.op = "H"
    /\ last.z = ArrayZ(<<1, 0>>)
    /\ IsValue(last.out)
    /\ last.out.data[1] # last.out.data[2]

CacheKeys == {"Om_m", "Hubble", "angular_distance", "luminosity_distance"}

ModelState == <<cosmo, cosmo_fn, constructed, cacheWrites>>

\* C3: the vectorization table is written exactly once, at construction, with
\* exactly the four keys Om_m, Hubble, angular_distance, luminosity_distance;
\* once constructed, no property read or redshift query changes the table,
\* the solver reference or any other state of the object.
C3_CacheWrittenOnce ==
    /\ [](~constructed => cacheWrites = 0 /\ DOMAIN cosmo_fn = {})
    /\ [](constructed => cacheWrites = 1 /\ DOMAIN cosmo_fn = CacheKeys)
    /\ [][constructed => UNCHANGED ModelState]_vars

C3_Witness ==
    /\ constructed
    /\ cacheWrites = 1
    /\ last.op = "luminosity_distance"
    /\ last.z = ArrayZ(<<0, 1>>)
    /\ IsValue(last.out)

\* C4: H at the scalar redshift 0 is the property H0, and both are the speed
\* of light times the solver's Hubble rate at redshift 0.
C4_H_at_0_is_H0 ==
    /\ (last.op = "H" /\ last.z = ScalarZ(0))
       => last.out = H0 /\ last.out = Scalar(FMul(c, cosmo.Hubble[0]))
    /\ last.op = "H0" => last.out = Scalar(FMul(c, cosmo.Hubble[0]))

C4_Witness ==
    /\ last.op = "H"
    /\ last.z = ScalarZ(0)
    /\ cosmo.Hubble[0] = Num(2)
    /\ last.out = Scalar(Rat(299792458, 500))

\* 4/3*pi*d**3 of an outcome d: applied to a value, passed through by an
\* exception.
SphereVolume(d) == WithForm(d, "4/3*pi*x**3")

\* C5: with Omega_k0 = 0, comoving_volume(z) has the outcome of
\* 4/3*pi*comoving_distance(z)**3 for every redshift input.
C5_FlatVolume ==
    (last.op = "comoving_volume" /\ cosmo.Omega0_k.n = 0)
    => last.out = SphereVolume(comoving_distance(last.z))

C5_Witness ==
    /\ last.op = "comoving_volume"
    /\ cosmo.Omega0_k.n = 0
    /\ last.z = ScalarZ(1)
    /\ last.out.by = "comoving_distance"

\* C6: comoving_volume takes exactly one branch, chosen by the sign of
\* Omega_k0 (flat iff = 0, positive iff > 0, negative iff < 0), and term1 is
\* never divided by 2*Omega_k0 = 0.
C6_BranchBySign ==
    last.op = "comoving_volume"
    => /\ last.branch \in {"flat", "positive", "negative"}
       /\ last.branch = "flat" <=> cosmo.Omega0_k.n = 0
       /\ last.branch = "positive" <=> cosmo.Omega0_k.n > 0
       /\ last.branch = "negative" <=> cosmo.Omega0_k.n < 0
       /\ \A i \in 1..Len(last.divs) : last.divs[i].n # 0

C6_Witness ==
    /\ last.op = "comoving_volume"
    /\ last.branch = "positive"
    /\ cosmo.Omega0_k = Tenths(1)
    /\ cosmo.Hubble[0] = Num(1)

\* C7: Omega_tot0 = Omega_m0 + Omega_r0 + Omega_de0 + Omega_k0, the first,
\* third and fourth being the object's own properties and Omega_r0 the
\* solver's radiation total; 0.3, 0, 0.7, 0 give 1.
C7_TotalIsSum ==
    last.op = "Omega_tot0"
    => /\ IsValue(last.out)
       /\ last.out.data =
             <<FAdd(FAdd(FAdd(Omega_m0.data[1], cosmo.Omega_r), Omega_de0.data[1]),
                    Omega_k0.data[1])>>
       /\ (/\ Omega_m0 = Scalar(Tenths(3))
           /\ Omega_de0 = Scalar(Tenths(7))
           /\ Omega_k0 = Scalar(Num(0))
           /\ cosmo.Omega_r = Num(0)) => last.out = Scalar(Num(1))

C7_Witness ==
    /\ last.op = "Omega_tot0"
    /\ cosmo.Omega_m = Tenths(3)
    /\ cosmo.Omega_Lambda = Tenths(7)
    /\ cosmo.Omega0_k = Num(0)
    /\ cosmo.Omega_r = Num(0)
    /\ last.out = Scalar(Num(1))

\* C8: when the solver's baryon density is undefined (None), Omega_b0 and
\* Omega_b(z) end in an error that is neither a value nor the unsupported
\* outcome.
C8_InvalidParameter ==
    (last.op \in {"Omega_b0", "Omega_b"} /\ cosmo.Omega_b = None)
    => ~IsValue(last.out) /\ ~IsUnsupported(last.out)

\* H(z)/H0 of two outcomes: numpy's elementwise division.
Quotient(a, b) ==
    IF IsValue(a) /\ IsValue(b) THEN DivAll(a, b.data[1])
    ELSE IF IsValue(a) THEN b ELSE a

\* C9: for every redshift input, h_over_h0(z) is H(z)/H0 (the same floats,
\* inf and nan included, or the same exception); where the solver's Hubble
\* rate at 0 is non-zero, h_over_h0 is 1 at every element with z = 0.
C9_NormalisedHubble ==
    last.op = "h_over_h0"
    => /\ last.out = Quotient(H(last.z), H0)
       /\ cosmo.Hubble[0].n # 0
          => \A i \in 1..Len(last.z.data) :
                last.z.data[i] = 0 => IsValue(last.out) /\ last.out.data[i] = Num(1)

C9_Witness ==
    /\ last.op = "h_over_h0"
    /\ last.z = ArrayZ(<<1, 0>>)
    /\ cosmo.Hubble[0] = Num(2)
    /\ cosmo.Hubble[1] = Num(1)
    /\ last.out.data = <<Rat(1, 2), Num(1)>>

VolumeOps == {"comoving_volume", "differential_comoving_volume"}

\* C10 as claimed: comoving_volume and differential_comoving_volume end in
\* the unsupported outcome for every redshift and every Omega_k0.
C10_AlwaysUnsupported ==
    last.op \in VolumeOps => IsUnsupported(last.out)

\* C10 as amended: neither ever returns a value, and neither changes the
\* object.  differential_comoving_volume always ends in the unsupported
\* outcome of comoving_transverse_distance.  comoving_volume ends in the
\* unsupported outcome of comoving_distance when Omega_k0 = 0 and in that of
\* comoving_transverse_distance when Omega_k0 # 0 and the solver's Hubble
\* rate at 0 is non-zero; when Omega_k0 # 0 and that rate is zero,
\* hubble_distance is evaluated first and its ZeroDivisionError is what
\* reaches the caller.
C10_ErrorsPropagate ==
    /\ [](last.op \in VolumeOps => ~IsValue(last.out))
    /\ [](last.op = "differential_comoving_volume"
            => IsUnsupported(last.out) /\ last.out.by = "comoving_transverse_distance")
    /\ []((last.op = "comoving_volume" /\ cosmo.Omega0_k.n = 0)
            => IsUnsupported(last.out) /\ last.out.by = "comoving_distance")
    /\ []((last.op = "comoving_volume" /\ cosmo.Omega0_k.n # 0 /\ cosmo.Hubble[0].n # 0)
            => IsUnsupported(last.out) /\ last.out.by = "comoving_transverse_distance")
    /\ []((last.op = "comoving_volume" /\ cosmo.Omega0_k.n # 0 /\ cosmo.Hubble[0].n = 0)
            => last.out = Raise("ZeroDivisionError", "hubble_distance"))
    /\ [][last'.op \in VolumeOps => UNCHANGED ModelState]_vars

C10_Witness ==
    /\ last.op = "comoving_volume"
    /\ last.branch = "negative"
    /\ cosmo.Hubble[0] = Num(0)
    /\ last.out.kind = "ZeroDivisionError"

====
